---- MODULE Spec2Model ----
(***************************************************************************)
(* Model of the AI Fitness Coach nutrition core:                           *)
(*   - the vision estimator        (src/lib/ai/openai-vision.ts, 1-145)    *)
(*   - the estimate/validate rules (utils/supabase/middleware.ts, 99-166)  *)
(*   - the daily aggregator        (src/lib/ai/openai-vision.ts, 146-211)  *)
(*   - the calorie tracker page    (app/calorie-tracker/page.tsx, 20-62)   *)
(*   - the session middleware      (utils/supabase/middleware.ts, 12-42)   *)
(*   - the logging sink            (utils/supabase/middleware.ts, 365-388) *)
(* Numbers in [0,1] (confidence scores) are carried in hundredths.         *)
(***************************************************************************)
EXTENDS Integers, Sequences, FiniteSets, TLC

VARIABLES
    \* ---- vision estimator module (openai-vision.ts 1-145)
    apiKey,        \* process.env.OPENAI_API_KEY as read at module load
    moduleState,   \* "unloaded" | "initialised" | "failed"
    openai,        \* the module-level client: "null" | "client"
    visionLog,     \* set of logger lines written by the estimator module
    calls,         \* number of analyzeImageWithOpenAI calls started
    requests,      \* number of chat.completions.create requests issued
    call,          \* the current / last analyzeImageWithOpenAI call
    \* ---- estimate-then-validate pipeline (middleware.ts 99-166)
    pipe,          \* the current / last analyzeFoodImage call
    processed,     \* what processNutritionAnalysis returned for its result
    \* ---- daily aggregator (openai-vision.ts 146-211)
    now,           \* the aggregator host's clock (new Date()), an instant
    logs,          \* the rows of the nutrition_logs table
    runs,          \* the runs of updateNutritionData, one per delivered event
    emitted,       \* the events sent with step.sendEvent
    \* ---- calorie tracker page (app/calorie-tracker/page.tsx 20-62)
    page,          \* the current / last CalorieTrackerPage request
    \* ---- session middleware (utils/supabase/middleware.ts 12-42)
    session,       \* the current / last updateSession call
    \* ---- logging sink (utils/supabase/middleware.ts 365-388)
    oplog          \* the current / last logAIOperation call

visionVars == <<apiKey, moduleState, openai, visionLog, calls, requests, call>>
pipelineVars == <<pipe, processed>>
aggregatorVars == <<now, logs, runs, emitted>>
webVars == <<page, session>>

vars == <<apiKey, moduleState, openai, visionLog, calls, requests, call,
          pipe, processed, now, logs, runs, emitted, page, session,
          oplog>>

(***************************************************************************)
(* Bounds                                                                  *)
(***************************************************************************)
MaxCalls == 2
MaxLogs == 2
MaxVisits == 2
MaxSetAll == 2

(***************************************************************************)
(* Vision estimator                                                        *)
(***************************************************************************)
\* Values process.env.OPENAI_API_KEY can have: undefined, "" or a key.
EnvKeys == {"undefined", "empty", "sk-key"}

\* JavaScript truthiness of the environment string (line 10: if (apiKey)).
Truthy(k) == k = "sk-key"

Images == {"", "img"}

NoError == [name |-> "none", message |-> "none", site |-> "none"]
NoValue == [type |-> "none", fields |-> {}]

\* Error objects; site stands for the object's identity (where it was created).
ConfigError ==
    [name |-> "Error",
     message |-> "OPENAI_API_KEY environment variable is required",
     site |-> "getOpenAIClient:33"]
NoResponseError ==
    [name |-> "Error", message |-> "No response from OpenAI", site |-> "analyze:120"]
InvalidJsonError ==
    [name |-> "Error", message |-> "Invalid JSON response from OpenAI",
     site |-> "analyze:131"]
SyntaxError ==
    [name |-> "SyntaxError", message |-> "Unexpected token", site |-> "JSON.parse"]
NullClientTypeError ==
    [name |-> "TypeError", message |-> "Cannot read properties of null",
     site |-> "analyze:68"]
NullAnalysisTypeError ==
    [name |-> "TypeError", message |-> "Cannot read properties of null",
     site |-> "analyze:135"]
FoodItemsTypeError ==
    [name |-> "TypeError", message |-> "Cannot read properties of undefined",
     site |-> "analyze:137"]
\* maxRetries of the client built at lines 11-15: how many times the client
\* retries one request after its first attempt.
MaxRetries == 3

\* The attempts the client may make for one request: the first and the retries.
MaxAttempts == MaxRetries + 1

\* Failures of an attempt that the client retries while its budget lasts: the
\* attempt ran into the 60 s timeout of line 14, or the provider answered 5xx.
RetryableErrors ==
    { [name |-> "APIConnectionTimeoutError", message |-> "Request timed out.",
       site |-> "client"],
      [name |-> "APIError", message |-> "status 5xx", site |-> "client"] }

\* Failures the client does not retry.
FatalErrors ==
    { [name |-> "AuthenticationError", message |-> "status 401", site |-> "client"] }

TransportErrors == RetryableErrors \cup FatalErrors

\* Fields of the NutritionAnalysis interface (lines 38-55).
AnalysisFields ==
    {"foodItems", "totalCalories", "totalProtein", "totalCarbs", "totalFat",
     "totalFiber", "confidenceScore", "analysisNotes"}

\* What JSON text can denote: null, a scalar or array, or an object; of an
\* object only the set of NutritionAnalysis keys it carries (non-null) matters.
JsonValues ==
    { [type |-> "null", fields |-> {}], [type |-> "scalar", fields |-> {}] }
    \cup { [type |-> "object", fields |-> f] : f \in SUBSET AnalysisFields }

\* response.choices[0]?.message?.content
Contents ==
    { [kind |-> "missing", json |-> NoValue],     \* undefined / null
      [kind |-> "emptyString", json |-> NoValue], \* ""
      [kind |-> "text", json |-> NoValue] }       \* not JSON
    \cup { [kind |-> "json", json |-> v] : v \in JsonValues }

NoContent == [kind |-> "none", json |-> NoValue]

\* How the awaited client.chat.completions.create(...) settles.
Responses ==
    { [kind |-> "reject", error |-> e, content |-> NoContent] : e \in TransportErrors }
    \cup { [kind |-> "resolve", error |-> NoError, content |-> c] : c \in Contents }

NoResponse == [kind |-> "none", error |-> NoError, content |-> NoContent]

Threw(e) == [status |-> "threw", error |-> e, value |-> NoValue]
Returned(v) == [status |-> "returned", error |-> NoError, value |-> v]

\* Variant of ModuleInit that fails at startup when the key is absent.
ModuleInitFailFast(k) ==
    /\ moduleState = "unloaded"
    /\ apiKey' = k
    /\ IF Truthy(k)
       THEN /\ openai' = "client"
            /\ moduleState' = "initialised"
            /\ visionLog' = visionLog \cup {"info:OpenAI client initialized successfully"}
       ELSE /\ openai' = "null"
            /\ moduleState' = "failed"
            /\ visionLog' = visionLog
    /\ UNCHANGED <<calls, requests, call>>
    /\ UNCHANGED <<pipelineVars, aggregatorVars, webVars, oplog>>

\* Module initialisation, lines 5-19: read the key, build the client if it is
\* present, otherwise only log a warning.
ModuleInit(k) ==
    /\ moduleState = "unloaded"
    /\ apiKey' = k
    /\ IF Truthy(k)
       THEN /\ openai' = "client"
            /\ visionLog' = visionLog \cup {"info:OpenAI client initialized successfully"}
       ELSE /\ openai' = "null"
            /\ visionLog' = visionLog \cup {"warn:OPENAI_API_KEY environment variable is missing"}
    /\ moduleState' = "initialised"
    /\ UNCHANGED <<calls, requests, call>>
    /\ UNCHANGED <<pipelineVars, aggregatorVars, webVars, oplog>>

\* Variant of GetOpenAIClient without the null check.
GetOpenAIClientUnchecked == [ok |-> TRUE, client |-> openai, error |-> NoError]

\* getOpenAIClient, lines 30-36.
GetOpenAIClient ==
    IF openai = "null"
    THEN [ok |-> FALSE, client |-> "null", error |-> ConfigError]
    ELSE [ok |-> TRUE, client |-> openai, error |-> NoError]

\* JSON.parse(content), line 125.
JsonParse(c) ==
    IF c.kind = "json" THEN Returned(c.json) ELSE Threw(SyntaxError)

\* Inner try/catch, lines 124-132: a parse failure is logged and replaced by a
\* new Error.
ParseAnalysis(c) ==
    IF JsonParse(c).status = "threw" THEN Threw(InvalidJsonError) ELSE JsonParse(c)

\* Lines 118-140: from the resolved response to the return statement.
AfterResponse(c) ==
    IF c.kind \in {"missing", "emptyString"} THEN Threw(NoResponseError)
    ELSE IF ParseAnalysis(c).status = "threw" THEN ParseAnalysis(c)
    ELSE IF ParseAnalysis(c).value.type = "null" THEN Threw(NullAnalysisTypeError)
    ELSE IF "foodItems" \notin ParseAnalysis(c).value.fields THEN Threw(FoodItemsTypeError)
    ELSE ParseAnalysis(c)

\* Variant of OuterCatch that swallows the error and returns a made-up record.
OuterCatchFabricate(e) == Returned([type |-> "object", fields |-> AnalysisFields])

\* Outer catch, lines 141-144: log and rethrow the caught error.
OuterCatch(e) == Threw(e)

Settle(o) == IF o.status = "threw" THEN OuterCatch(o.error) ELSE o

IdleCall ==
    [pc |-> "idle", image |-> "", hadClient |-> FALSE, requested |-> FALSE,
     attempts |-> 0,
     response |-> NoResponse, caught |-> NoError,
     outcome |-> [status |-> "none", error |-> NoError, value |-> NoValue]]

CallLog(o) ==
    IF o.status = "threw" THEN {"error:OpenAI Vision analysis failed"}
    ELSE {"info:OpenAI analysis completed"}

\* analyzeImageWithOpenAI up to its await, lines 65-116.
AnalyzeStart(img) ==
    /\ moduleState = "initialised"
    /\ call.pc # "awaiting"
    /\ calls < MaxCalls
    /\ calls' = calls + 1
    /\ IF ~GetOpenAIClient.ok
       THEN /\ call' = [IdleCall EXCEPT !.pc = "settled", !.image = img,
                            !.caught = GetOpenAIClient.error,
                            !.outcome = OuterCatch(GetOpenAIClient.error)]
            /\ visionLog' = visionLog
                  \cup {"error:Attempted to use OpenAI client but it is not initialized",
                        "error:OpenAI Vision analysis failed"}
            /\ UNCHANGED requests
       ELSE IF GetOpenAIClient.client = "null"
       THEN /\ call' = [IdleCall EXCEPT !.pc = "settled", !.image = img,
                            !.caught = NullClientTypeError,
                            !.outcome = OuterCatch(NullClientTypeError)]
            /\ visionLog' = visionLog \cup {"error:OpenAI Vision analysis failed"}
            /\ UNCHANGED requests
       ELSE /\ call' = [IdleCall EXCEPT !.pc = "awaiting", !.image = img,
                            !.hadClient = TRUE, !.requested = TRUE,
                            !.attempts = 1]
            /\ requests' = requests + 1
            /\ UNCHANGED visionLog
    /\ UNCHANGED <<apiKey, moduleState, openai>>
    /\ UNCHANGED <<pipelineVars, aggregatorVars, webVars, oplog>>

\* Inside the awaited client.chat.completions.create (line 68): an attempt
\* fails with a retryable error or runs into its timeout, and the client built
\* at lines 11-15 makes another attempt while retries are left.
ClientRetries ==
    /\ call.pc = "awaiting"
    /\ call.attempts < MaxAttempts
    /\ call' = [call EXCEPT !.attempts = call.attempts + 1]
    /\ UNCHANGED <<apiKey, moduleState, openai, visionLog, calls, requests>>
    /\ UNCHANGED <<pipelineVars, aggregatorVars, webVars, oplog>>

\* Variant of AnalyzeSettle with a retry loop of the estimator's own: a
\* rejected request is issued again.
AnalyzeSettleRetriesItself(resp) ==
    /\ call.pc = "awaiting"
    /\ resp.kind = "reject" /\ resp.error \in RetryableErrors
          => call.attempts = MaxAttempts
    /\ IF resp.kind = "reject"
       THEN /\ call' = [call EXCEPT !.attempts = 1]
            /\ requests' = requests + 1
            /\ UNCHANGED visionLog
       ELSE /\ call' = [call EXCEPT !.pc = "settled", !.response = resp,
                            !.caught = AfterResponse(resp.content).error,
                            !.outcome = Settle(AfterResponse(resp.content))]
            /\ visionLog' = visionLog \cup CallLog(Settle(AfterResponse(resp.content)))
            /\ UNCHANGED requests
    /\ UNCHANGED <<apiKey, moduleState, openai, calls>>
    /\ UNCHANGED <<pipelineVars, aggregatorVars, webVars, oplog>>

\* analyzeImageWithOpenAI after the await, lines 116-145. The await rejects
\* with a retryable error only once the client has used up its attempts.
AnalyzeSettle(resp) ==
    /\ call.pc = "awaiting"
    /\ resp.kind = "reject" /\ resp.error \in RetryableErrors
          => call.attempts = MaxAttempts
    /\ LET body == IF resp.kind = "reject" THEN Threw(resp.error)
                   ELSE AfterResponse(resp.content)
       IN /\ call' = [call EXCEPT !.pc = "settled", !.response = resp,
                          !.caught = body.error, !.outcome = Settle(body)]
          /\ visionLog' = visionLog
                \cup CallLog(Settle(body))
                \cup (IF resp.kind = "resolve" /\ resp.content.kind = "text"
                      THEN {"error:Failed to parse OpenAI response as JSON"} ELSE {})
    /\ UNCHANGED <<apiKey, moduleState, openai, calls, requests>>
    /\ UNCHANGED <<pipelineVars, aggregatorVars, webVars, oplog>>

InitVision ==
    /\ apiKey = "unread"
    /\ moduleState = "unloaded"
    /\ openai = "null"
    /\ visionLog = {}
    /\ calls = 0
    /\ requests = 0
    /\ call = IdleCall

NextVision ==
    \/ \E k \in EnvKeys : ModuleInit(k)
    \/ \E img \in Images : AnalyzeStart(img)
    \/ ClientRetries
    \/ \E resp \in Responses : AnalyzeSettle(resp)

(***************************************************************************)
(* Estimate-then-validate pipeline (middleware.ts 99-166)                  *)
(***************************************************************************)
\* The 0.7 of processNutritionAnalysis, in hundredths.
ConfidenceThreshold == 70

\* Values the model can put in the number fields; confidence in hundredths of
\* the schema's [0,1].
CalorieValues == {0, 95, 250}
Confidences == {0, 65, 69, 70, 71, 100}
FoodItemLists == {<<>>, <<"apple">>}
Reasonings == {"plausible", "portion adjusted"}

\* Objects conforming to the first generateObject schema (lines 103-111).
InitialAnalyses ==
    [foodItems : FoodItemLists, totalCaloriesEstimate : CalorieValues,
     confidence : Confidences]

\* Objects conforming to the second generateObject schema (lines 132-136).
Validations ==
    [isReasonable : BOOLEAN, adjustedCalories : CalorieValues,
     reasoning : Reasonings]

\* What generateObject rejects with: a failed request or a reply that does not
\* conform to the schema.
GenerateErrors == {"APICallError", "NoObjectGeneratedError"}

NoObject == [none |-> TRUE]

EstimateFields ==
    {"foodItems", "totalCaloriesEstimate", "confidence", "finalCalories",
     "validationNotes"}

\* Variant of BuildEstimate that keeps the first-pass calories as the final ones.
BuildEstimateUnvalidated(initial, validation) ==
    [foodItems |-> initial.foodItems,
     totalCaloriesEstimate |-> initial.totalCaloriesEstimate,
     confidence |-> initial.confidence,
     finalCalories |-> initial.totalCaloriesEstimate,
     validationNotes |-> validation.reasoning]

\* Variant of BuildEstimate in which a validation that finds the estimate
\* unreasonable also resets its confidence.
BuildEstimateResetsConfidence(initial, validation) ==
    [foodItems |-> initial.foodItems,
     totalCaloriesEstimate |-> initial.totalCaloriesEstimate,
     confidence |-> IF validation.isReasonable THEN initial.confidence ELSE 0,
     finalCalories |-> validation.adjustedCalories,
     validationNotes |-> validation.reasoning]

\* The return statement of analyzeFoodImage, lines 142-146.
BuildEstimate(initial, validation) ==
    [foodItems |-> initial.foodItems,
     totalCaloriesEstimate |-> initial.totalCaloriesEstimate,
     confidence |-> initial.confidence,
     finalCalories |-> validation.adjustedCalories,
     validationNotes |-> validation.reasoning]

\* Variant of ProcessNutritionAnalysis whose comparison includes the threshold.
ProcessNutritionAnalysisInclusive(result) ==
    [estimate |-> result,
     requiresUserConfirmation |-> result.confidence <= ConfidenceThreshold,
     message |-> IF result.confidence <= ConfidenceThreshold
                 THEN "I'm not entirely sure about this estimate."
                 ELSE "Nutrition estimate looks good!"]

\* processNutritionAnalysis, lines 152-166.
ProcessNutritionAnalysis(result) ==
    IF result.confidence < ConfidenceThreshold
    THEN [estimate |-> result, requiresUserConfirmation |-> TRUE,
          message |-> "I'm not entirely sure about this estimate."]
    ELSE [estimate |-> result, requiresUserConfirmation |-> FALSE,
          message |-> "Nutrition estimate looks good!"]

IdlePipe ==
    [pc |-> "idle", image |-> "", initial |-> NoObject, validatorCalled |-> FALSE,
     validation |-> NoObject, result |-> NoObject, error |-> "none"]

\* analyzeFoodImage is called: the first generateObject is awaited (line 101).
AnalyzeFoodImageStart(img) ==
    /\ pipe.pc \in {"idle", "returned", "threw"}
    /\ pipe' = [IdlePipe EXCEPT !.pc = "initialAnalysis", !.image = img]
    /\ processed' = NoObject
    /\ UNCHANGED <<visionVars, aggregatorVars, webVars, oplog>>

\* Step 1 resolves; step 2, the validation request seeded with the first
\* object, is awaited (lines 129-140).
InitialAnalysisResolves(obj) ==
    /\ pipe.pc = "initialAnalysis"
    /\ pipe' = [pipe EXCEPT !.pc = "validation", !.initial = obj,
                            !.validatorCalled = TRUE]
    /\ UNCHANGED <<processed, visionVars, aggregatorVars, webVars, oplog>>

\* Step 1 rejects: nothing catches it, analyzeFoodImage rejects with it.
InitialAnalysisRejects(err) ==
    /\ pipe.pc = "initialAnalysis"
    /\ pipe' = [pipe EXCEPT !.pc = "threw", !.error = err]
    /\ UNCHANGED <<processed, visionVars, aggregatorVars, webVars, oplog>>

\* Step 2 resolves: the function returns the merged object (lines 142-146).
ValidationResolves(v) ==
    /\ pipe.pc = "validation"
    /\ pipe' = [pipe EXCEPT !.pc = "returned", !.validation = v,
                            !.result = BuildEstimate(pipe.initial, v)]
    /\ UNCHANGED <<processed, visionVars, aggregatorVars, webVars, oplog>>

\* Variant of ValidationRejects that catches the error and falls back to the
\* first-pass estimate.
ValidationRejectsFallsBack(err) ==
    /\ pipe.pc = "validation"
    /\ pipe' = [pipe EXCEPT !.pc = "returned", !.error = err,
                            !.result = [foodItems |-> pipe.initial.foodItems,
                                        totalCaloriesEstimate |-> pipe.initial.totalCaloriesEstimate,
                                        confidence |-> pipe.initial.confidence,
                                        finalCalories |-> pipe.initial.totalCaloriesEstimate,
                                        validationNotes |-> ""]]
    /\ UNCHANGED <<processed, visionVars, aggregatorVars, webVars, oplog>>

\* Step 2 rejects: nothing catches it, analyzeFoodImage rejects with it.
ValidationRejects(err) ==
    /\ pipe.pc = "validation"
    /\ pipe' = [pipe EXCEPT !.pc = "threw", !.error = err]
    /\ UNCHANGED <<processed, visionVars, aggregatorVars, webVars, oplog>>

\* The caller hands the returned estimate to processNutritionAnalysis.
ProcessResult ==
    /\ pipe.pc = "returned"
    /\ processed = NoObject
    /\ processed' = ProcessNutritionAnalysis(pipe.result)
    /\ UNCHANGED <<pipe, visionVars, aggregatorVars, webVars, oplog>>

InitPipeline ==
    /\ pipe = IdlePipe
    /\ processed = NoObject

NextPipeline ==
    \/ \E img \in Images : AnalyzeFoodImageStart(img)
    \/ \E obj \in InitialAnalyses : InitialAnalysisResolves(obj)
    \/ \E err \in GenerateErrors : InitialAnalysisRejects(err)
    \/ \E v \in Validations : ValidationResolves(v)
    \/ \E err \in GenerateErrors : ValidationRejects(err)
    \/ ProcessResult

(***************************************************************************)
(* Daily aggregator (openai-vision.ts 146-211)                             *)
(***************************************************************************)
\* The 0.7 of check-insights-trigger, in hundredths.
LowConfidenceThreshold == 70

\* Instants are sampled per local day: the first of a day stands for
\* 00:00:00.000 (and any instant before the last millisecond, which the window
\* of lines 162-171 treats alike), the last for 23:59:59.999.
TicksPerDay == 2

\* The clock runs from the first instant of a day, through its last
\* millisecond, to the first instant of the next day: it crosses one midnight.
MaxTime == TicksPerDay

Users == {"u1", "u2"}
\* Two runs of the function: two events, or one event delivered twice.
Runs == {1, 2}
EventConfidences == {65, 70}

\* The five numeric columns of a stored record; a nullable number is <<>> for
\* null and <<v>> for v. Records alternate between one with every column set
\* and one with null columns.
MealOf(id) ==
    IF id % 2 = 1
    THEN [total_calories |-> <<100>>, total_protein_g |-> <<10>>,
          total_carbs_g |-> <<20>>, total_fat_g |-> <<5>>, total_fiber_g |-> <<3>>]
    ELSE [total_calories |-> <<250>>, total_protein_g |-> <<>>,
          total_carbs_g |-> <<30>>, total_fat_g |-> <<>>, total_fiber_g |-> <<>>]

\* new Date(y, m, d) and new Date(y, m, d, 23, 59, 59, 999) of an instant,
\* lines 162-163.
StartOfDay(t) == t - (t % TicksPerDay)
EndOfDay(t) == StartOfDay(t) + (TicksPerDay - 1)

\* Variant of TodayLogs without the user_id filter.
TodayLogsAnyUser(rows, userId, t) ==
    { r \in rows : /\ r.created_at >= StartOfDay(t)
                   /\ r.created_at < EndOfDay(t) }

\* The select of lines 166-171: eq user_id, gte startOfDay, lt endOfDay.
TodayLogs(rows, userId, t) ==
    { r \in rows : /\ r.user_id = userId
                   /\ r.created_at >= StartOfDay(t)
                   /\ r.created_at < EndOfDay(t) }

\* (x || 0) of a nullable number, lines 179-183.
OrZero(x) == IF Len(x) = 0 THEN 0 ELSE x[1]

ZeroTotals == [calories |-> 0, protein |-> 0, carbs |-> 0, fat |-> 0, fiber |-> 0]

\* The reducer of lines 178-184, one row folded into the accumulator.
AddLog(acc, log) ==
    [calories |-> acc.calories + OrZero(log.total_calories),
     protein |-> acc.protein + OrZero(log.total_protein_g),
     carbs |-> acc.carbs + OrZero(log.total_carbs_g),
     fat |-> acc.fat + OrZero(log.total_fat_g),
     fiber |-> acc.fiber + OrZero(log.total_fiber_g)]

RECURSIVE Reduce(_, _)
Reduce(rows, acc) ==
    IF rows = {} THEN acc
    ELSE LET log == CHOOSE r \in rows : \A q \in rows : r.id <= q.id
         IN Reduce(rows \ {log}, AddLog(acc, log))

NoSummary == [none |-> TRUE]
NoEvent == [none |-> TRUE]

\* The totals the runs have returned so far, added up.
RECURSIVE ReturnedTotals(_)
ReturnedTotals(rs) ==
    IF rs = {} THEN ZeroTotals
    ELSE LET r == CHOOSE x \in rs : TRUE
             rest == ReturnedTotals(rs \ {r})
         IN IF runs[r].summary = NoSummary THEN rest
            ELSE [f \in DOMAIN ZeroTotals |-> rest[f] + runs[r].summary.totals[f]]

\* Variant of DailyTotals that adds to a running counter instead of recomputing.
DailyTotalsIncremental(todayLogs) == Reduce(todayLogs, ReturnedTotals(Runs))

\* dailyTotals of lines 178-184.
DailyTotals(todayLogs) == Reduce(todayLogs, ZeroTotals)

\* Variant of LowConfidence whose comparison includes the threshold.
LowConfidenceInclusive(confidenceScore) == confidenceScore <= LowConfidenceThreshold

\* The condition of line 197.
LowConfidence(confidenceScore) == confidenceScore < LowConfidenceThreshold

IdleRun == [pc |-> "idle", event |-> NoEvent, summary |-> NoSummary]

\* The host clock advances.
Tick ==
    /\ now < MaxTime
    /\ now' = now + 1
    /\ UNCHANGED <<logs, runs, emitted, visionVars, pipelineVars, webVars, oplog>>

\* A nutrition record is persisted, stamped with the current instant. Users
\* are interchangeable: the owner of the first record is the one named "u1".
PersistLog(u) ==
    /\ Cardinality(logs) < MaxLogs
    /\ logs = {} => u = "u1"
    /\ LET id == Cardinality(logs) + 1
       IN logs' = logs \cup
             { [id |-> id, user_id |-> u, created_at |-> now,
                total_calories |-> MealOf(id).total_calories,
                total_protein_g |-> MealOf(id).total_protein_g,
                total_carbs_g |-> MealOf(id).total_carbs_g,
                total_fat_g |-> MealOf(id).total_fat_g,
                total_fiber_g |-> MealOf(id).total_fiber_g] }
    /\ UNCHANGED <<now, runs, emitted, visionVars, pipelineVars, webVars, oplog>>

\* A 'nutrition/analysis.completed' event for a persisted record is delivered
\* (at least once): a run of updateNutritionData starts, lines 150-154.
DeliverEvent(r, log, c) ==
    /\ runs[r].pc = "idle"
    /\ \A q \in Runs : q < r => runs[q].pc # "idle"
    /\ log \in logs
    /\ runs' = [runs EXCEPT ![r] =
                  [IdleRun EXCEPT !.pc = "step1",
                       !.event = [logId |-> log.id, userId |-> log.user_id,
                                  confidenceScore |-> c]]]
    /\ UNCHANGED <<now, logs, emitted, visionVars, pipelineVars, webVars, oplog>>

\* Variant of UpdateDailySummary that writes the summary back into the table.
UpdateDailySummaryWritesBack(r) ==
    /\ runs[r].pc = "step1"
    /\ LET todayLogs == TodayLogs(logs, runs[r].event.userId, now)
       IN /\ runs' = [runs EXCEPT ![r].pc = "step2",
                          ![r].summary = [readAt |-> now, persisted |-> logs,
                                          todayLogs |-> todayLogs,
                                          totals |-> DailyTotals(todayLogs)]]
          /\ logs' = { [row EXCEPT !.total_calories =
                                    IF row \in todayLogs
                                    THEN <<DailyTotals(todayLogs).calories>>
                                    ELSE row.total_calories] : row \in logs }
    /\ UNCHANGED <<now, emitted, visionVars, pipelineVars, webVars, oplog>>

\* step.run('update-daily-summary') with a successful read, lines 157-193.
UpdateDailySummary(r) ==
    /\ runs[r].pc = "step1"
    /\ LET todayLogs == TodayLogs(logs, runs[r].event.userId, now)
       IN runs' = [runs EXCEPT ![r].pc = "step2",
                       ![r].summary = [readAt |-> now, persisted |-> logs,
                                       todayLogs |-> todayLogs,
                                       totals |-> DailyTotals(todayLogs)]]
    /\ UNCHANGED <<now, logs, emitted, visionVars, pipelineVars, webVars, oplog>>

\* Variant of UpdateDailySummaryFails in which the handler swallows the error
\* and returns, so the run ends without its second step.
UpdateDailySummaryFailsAbort(r) ==
    /\ runs[r].pc = "step1"
    /\ runs' = [runs EXCEPT ![r].pc = "done"]
    /\ UNCHANGED <<now, logs, emitted, visionVars, pipelineVars, webVars, oplog>>

\* Variant of UpdateDailySummaryFails in which the handler swallows the error
\* and goes on to its second step.
UpdateDailySummaryFailsContinue(r) ==
    /\ runs[r].pc = "step1"
    /\ runs' = [runs EXCEPT ![r].pc = "step2"]
    /\ UNCHANGED <<now, logs, emitted, visionVars, pipelineVars, webVars, oplog>>

\* step.run('update-daily-summary') when the read returns fetchError: the step
\* throws (lines 173-176) and is left to the step-executor to retry.
UpdateDailySummaryFails(r) ==
    /\ runs[r].pc = "step1"
    /\ runs' = [runs EXCEPT ![r].pc = "retry1"]
    /\ UNCHANGED <<now, logs, emitted, visionVars, pipelineVars, webVars, oplog>>

\* step.run('check-insights-trigger'), lines 196-207, then return, line 209.
CheckInsightsTrigger(r) ==
    /\ runs[r].pc = "step2"
    /\ emitted' =
          IF LowConfidence(runs[r].event.confidenceScore)
          THEN emitted \cup
                  { [run |-> r, name |-> "nutrition/low-confidence",
                     data |-> [logId |-> runs[r].event.logId,
                               userId |-> runs[r].event.userId,
                               confidenceScore |-> runs[r].event.confidenceScore]] }
          ELSE emitted
    /\ runs' = [runs EXCEPT ![r].pc = "done"]
    /\ UNCHANGED <<now, logs, visionVars, pipelineVars, webVars, oplog>>

\* step.sendEvent rejects: the step throws and is left to the step-executor.
CheckInsightsTriggerFails(r) ==
    /\ runs[r].pc = "step2"
    /\ LowConfidence(runs[r].event.confidenceScore)
    /\ runs' = [runs EXCEPT ![r].pc = "retry2"]
    /\ UNCHANGED <<now, logs, emitted, visionVars, pipelineVars, webVars, oplog>>

\* The step-executor runs a failed step again; succeeded steps keep their output.
RetryStep(r) ==
    /\ runs[r].pc \in {"retry1", "retry2"}
    /\ runs' = [runs EXCEPT ![r].pc = IF runs[r].pc = "retry1" THEN "step1" ELSE "step2"]
    /\ UNCHANGED <<now, logs, emitted, visionVars, pipelineVars, webVars, oplog>>

InitAggregator ==
    /\ now = 0
    /\ logs = {}
    /\ runs = [r \in Runs |-> IdleRun]
    /\ emitted = {}

NextAggregator ==
    \/ Tick
    \/ \E u \in Users : PersistLog(u)
    \/ \E r \in Runs, log \in logs, c \in EventConfidences : DeliverEvent(r, log, c)
    \/ \E r \in Runs : UpdateDailySummary(r)
    \/ \E r \in Runs : UpdateDailySummaryFails(r)
    \/ \E r \in Runs : CheckInsightsTrigger(r)
    \/ \E r \in Runs : CheckInsightsTriggerFails(r)
    \/ \E r \in Runs : RetryStep(r)

(***************************************************************************)
(* Calorie tracker page (app/calorie-tracker/page.tsx)                      *)
(***************************************************************************)
\* searchParams.success: absent, or a string.
SuccessParams == {"absent", "true", "false", "1"}

\* data.user of supabase.auth.getUser(): null or a user.
AuthUsers == {"null", "u1", "u2"}

\* error of supabase.auth.getUser(): null ("none") or an AuthError.
AuthErrors == {"none", "AuthSessionMissingError", "AuthApiError"}

LoginPath == "/login"

\* Variant of NeedsLogin that redirects only when both tests fail.
NeedsLoginConjunctive(user, error) == error # "none" /\ user = "null"

\* The test of line 25: error || !user.
NeedsLogin(user, error) == error # "none" \/ user = "null"

\* The element returned at lines 32-61.
PageContent(success) ==
    {"Card", "PhotoUpload"} \cup (IF success = "true" THEN {"Alert"} ELSE {})

IdlePage ==
    [pc |-> "idle", visit |-> 0, success |-> "absent", user |-> "null",
     error |-> "none", location |-> "", rendered |-> {}]

\* A request for the page: CalorieTrackerPage is called and awaits
\* createClient() and supabase.auth.getUser(), lines 20-24.
PageRequest(sp) ==
    /\ page.pc \in {"idle", "redirected", "rendered", "threw"}
    /\ page.visit < MaxVisits
    /\ page' = [IdlePage EXCEPT !.pc = "getUser", !.visit = page.visit + 1,
                                !.success = sp]
    /\ UNCHANGED <<session, visionVars, pipelineVars, aggregatorVars, oplog>>

\* createClient() or getUser() rejects: the page function rejects.
AuthLookupRejects ==
    /\ page.pc = "getUser"
    /\ page' = [page EXCEPT !.pc = "threw"]
    /\ UNCHANGED <<session, visionVars, pipelineVars, aggregatorVars, oplog>>

\* getUser() resolves, lines 24-27: redirect('/login') throws out of the
\* function, so nothing after it runs.
GetUserSettles(u, e) ==
    /\ page.pc = "getUser"
    /\ IF NeedsLogin(u, e)
       THEN page' = [page EXCEPT !.pc = "redirected", !.user = u, !.error = e,
                                 !.location = LoginPath]
       ELSE page' = [page EXCEPT !.pc = "searchParams", !.user = u, !.error = e]
    /\ UNCHANGED <<session, visionVars, pipelineVars, aggregatorVars, oplog>>

\* Lines 29-61: searchParams resolves and the element is returned.
RenderPage ==
    /\ page.pc = "searchParams"
    /\ page' = [page EXCEPT !.pc = "rendered", !.rendered = PageContent(page.success)]
    /\ UNCHANGED <<session, visionVars, pipelineVars, aggregatorVars, oplog>>

InitPage == page = IdlePage

NextPage ==
    \/ \E sp \in SuccessParams : PageRequest(sp)
    \/ AuthLookupRejects
    \/ \E u \in AuthUsers, e \in AuthErrors : GetUserSettles(u, e)
    \/ RenderPage

(***************************************************************************)
(* Session middleware (utils/supabase/middleware.ts, updateSession)         *)
(***************************************************************************)
CookieNames == {"sb-auth-token.0", "sb-auth-token.1", "sb-auth-token-code-verifier"}
CookieValues == {"a", "b"}
Absent == "absent"

\* A cookie store: for each name its value, or Absent.
Jars == [CookieNames -> CookieValues \cup {Absent}]
EmptyJar == [n \in CookieNames |-> Absent]

\* cookiesToSet: the cookies of one setAll call, at least one.
Batches == Jars \ {EmptyJar}

\* cookies.set(name, value) for every cookie of the batch.
SetEach(jar, batch) ==
    [n \in CookieNames |-> IF batch[n] # Absent THEN batch[n] ELSE jar[n]]

\* The cookies of a response just made by NextResponse.next({ request }): the
\* request is forwarded, the response sets no cookie yet.
NextResponseNext(request) == EmptyJar

IdleSession ==
    [pc |-> "idle", request |-> EmptyJar, response |-> EmptyJar,
     passed |-> EmptyJar, setAlls |-> 0]

\* updateSession up to its await, lines 12-39.
UpdateSessionStart(jar) ==
    /\ session.pc \in {"idle", "returned"}
    /\ session' = [IdleSession EXCEPT !.pc = "getUser", !.request = jar,
                                      !.response = NextResponseNext(jar)]
    /\ UNCHANGED <<page, visionVars, pipelineVars, aggregatorVars, oplog>>

\* The auth client calls setAll(cookiesToSet) while getUser() runs, lines
\* 25-33; passed records the latest value handed to setAll for each name.
SetAll(batch) ==
    /\ session.pc = "getUser"
    /\ session.setAlls < MaxSetAll
    /\ session' = [session EXCEPT
          !.request = SetEach(session.request, batch),
          !.response = SetEach(NextResponseNext(SetEach(session.request, batch)), batch),
          !.passed = SetEach(session.passed, batch),
          !.setAlls = session.setAlls + 1]
    /\ UNCHANGED <<page, visionVars, pipelineVars, aggregatorVars, oplog>>

\* getUser() settles and supabaseResponse is returned, lines 39-41.
UpdateSessionReturns ==
    /\ session.pc = "getUser"
    /\ session' = [session EXCEPT !.pc = "returned"]
    /\ UNCHANGED <<page, visionVars, pipelineVars, aggregatorVars, oplog>>

InitSession == session = IdleSession

NextSession ==
    \/ \E jar \in Jars : UpdateSessionStart(jar)
    \/ \E batch \in Batches : SetAll(batch)
    \/ UpdateSessionReturns

(***************************************************************************)
(* Logging sink (utils/supabase/middleware.ts, logAIOperation)              *)
(***************************************************************************)
\* What input and output (typed any) can be, by how JSON.stringify treats
\* them.
JsValues ==
    {"null", "string", "object", "array", "undefined", "function", "circular",
     "bigint"}

\* JSON.stringify(v): a string (carried by its length), the value undefined
\* for undefined and for a function, or a TypeError for a circular structure
\* and for a BigInt.
JsonStringify(v) ==
    CASE v = "null" -> [kind |-> "string", length |-> 4, error |-> "none"]
      [] v = "string" -> [kind |-> "string", length |-> 5, error |-> "none"]
      [] v = "object" -> [kind |-> "string", length |-> 2, error |-> "none"]
      [] v = "array" -> [kind |-> "string", length |-> 2, error |-> "none"]
      [] v \in {"undefined", "function"} ->
            [kind |-> "undefined", length |-> 0, error |-> "none"]
      [] v = "circular" ->
            [kind |-> "throws", length |-> 0,
             error |-> "TypeError: Converting circular structure to JSON"]
      [] OTHER ->
            [kind |-> "throws", length |-> 0,
             error |-> "TypeError: Do not know how to serialize a BigInt"]

\* JSON.stringify(v).length, lines 375-376: reading length of undefined throws.
PayloadSize(v) ==
    IF JsonStringify(v).kind = "throws"
    THEN [threw |-> TRUE, size |-> 0, error |-> JsonStringify(v).error]
    ELSE IF JsonStringify(v).kind = "undefined"
    THEN [threw |-> TRUE, size |-> 0,
          error |-> "TypeError: Cannot read properties of undefined (reading 'length')"]
    ELSE [threw |-> FALSE, size |-> JsonStringify(v).length, error |-> "none"]

\* How the awaited insert settles: no error, a returned error, a rejection.
InsertOutcomes == {"inserted", "returnedError", "rejected"}

NoRow == [none |-> TRUE]

\* Variant of CatchLogging that logs and throws the error on.
CatchLoggingRethrows(e) ==
    [console |-> {"Error logging AI operation"}, result |-> "rejected", error |-> e]

\* The catch block, lines 385-387: the error is written to the console and
\* the function goes on to its end.
CatchLogging(e) ==
    [console |-> {"Error logging AI operation"}, result |-> "resolved", error |-> "none"]

\* What the caller of logAIOperation ends with: its own operation's result,
\* unless the awaited logging call rejected.
CallerResult(success, result) ==
    IF result = "rejected" THEN "threw:logging"
    ELSE IF success THEN "returned" ELSE "threw:operation"

IdleOpLog ==
    [pc |-> "idle", input |-> "null", output |-> "null", success |-> FALSE,
     row |-> NoRow, insert |-> "none", stored |-> NoRow, console |-> {},
     result |-> "none", error |-> "none", caller |-> "none"]

\* logAIOperation up to its await, lines 365-380: the row is built inside the
\* try; a throw while it is built goes to the catch and no insert is issued.
LogAIOperationStart(input, output, success) ==
    /\ oplog.pc \in {"idle", "settled"}
    /\ LET inSize == PayloadSize(input)
           outSize == PayloadSize(output)
           thrown == IF inSize.threw THEN inSize.error ELSE outSize.error
       IN IF inSize.threw \/ outSize.threw
          THEN oplog' = [IdleOpLog EXCEPT
                    !.pc = "settled", !.input = input, !.output = output,
                    !.success = success,
                    !.console = CatchLogging(thrown).console,
                    !.result = CatchLogging(thrown).result,
                    !.error = CatchLogging(thrown).error,
                    !.caller = CallerResult(success, CatchLogging(thrown).result)]
          ELSE oplog' = [IdleOpLog EXCEPT
                    !.pc = "inserting", !.input = input, !.output = output,
                    !.success = success,
                    !.row = [input_size |-> inSize.size,
                             output_size |-> outSize.size,
                             success |-> success]]
    /\ UNCHANGED <<visionVars, pipelineVars, aggregatorVars, webVars>>

\* The insert settles, lines 373-387.
InsertSettles(outcome) ==
    /\ oplog.pc = "inserting"
    /\ IF outcome = "rejected"
       THEN oplog' = [oplog EXCEPT
                 !.pc = "settled", !.insert = outcome,
                 !.console = CatchLogging("insert rejected").console,
                 !.result = CatchLogging("insert rejected").result,
                 !.error = CatchLogging("insert rejected").error,
                 !.caller = CallerResult(oplog.success,
                                         CatchLogging("insert rejected").result)]
       ELSE oplog' = [oplog EXCEPT
                 !.pc = "settled", !.insert = outcome,
                 !.stored = IF outcome = "inserted" THEN oplog.row ELSE NoRow,
                 !.console = IF outcome = "returnedError"
                             THEN {"Failed to log AI operation"} ELSE {},
                 !.result = "resolved",
                 !.caller = CallerResult(oplog.success, "resolved")]
    /\ UNCHANGED <<visionVars, pipelineVars, aggregatorVars, webVars>>

InitOpLog == oplog = IdleOpLog

NextOpLog ==
    \/ \E input \in JsValues, output \in JsValues, success \in BOOLEAN :
          LogAIOperationStart(input, output, success)
    \/ \E outcome \in InsertOutcomes : InsertSettles(outcome)

(***************************************************************************)
(* Specifications                                                          *)
(***************************************************************************)
Init == InitVision /\ InitPipeline /\ InitAggregator /\ InitPage /\ InitSession
          /\ InitOpLog

SpecVision == Init /\ [][NextVision]_vars

SpecPipeline == Init /\ [][NextPipeline]_vars

SpecAggregator == Init /\ [][NextAggregator]_vars

\* The step-executor retries a failed step, and a step that is run again and
\* again does not fail forever.
FairAggregator ==
    \A r \in Runs :
        /\ WF_vars(RetryStep(r))
        /\ SF_vars(UpdateDailySummary(r))
        /\ SF_vars(CheckInsightsTrigger(r))

FairSpecAggregator == SpecAggregator /\ FairAggregator

\* Every attempt of the client ends: with a response, with an error, or at the
\* latest with its 60 s timeout (line 14); then the client retries or the
\* await settles.
FairVision == WF_vars(ClientRetries \/ \E resp \in Responses : AnalyzeSettle(resp))

FairSpecVision == SpecVision /\ FairVision

SpecPage == Init /\ [][NextPage]_vars

SpecSession == Init /\ [][NextSession]_vars

SpecOpLog == Init /\ [][NextOpLog]_vars

(***************************************************************************)
(* Claims about the vision estimator (checked under SpecVision)            *)
(***************************************************************************)
\* The expected structure: a JSON object carrying every NutritionAnalysis field.
Conforming(c) ==
    c.kind = "json" /\ c.json.type = "object" /\ c.json.fields = AnalysisFields

\* A reply with content that is not the expected structure.
Malformed(c) == c.kind \in {"text", "json"} /\ ~Conforming(c)

Settled == call.pc = "settled"
KeyAbsent == moduleState = "initialised" /\ ~Truthy(apiKey)

\* C6 (as claimed): every malformed model response, non-JSON text or JSON that
\* lacks required fields, makes the estimator throw the invalid-model-output
\* error; it is never returned to the caller as an analysis.
C6_MalformedRaisesInvalidModelOutput ==
    (Settled /\ call.response.kind = "resolve" /\ Malformed(call.response.content))
        => (call.outcome.status = "threw" /\ call.outcome.error = InvalidJsonError)

\* C7: with the API key absent, every estimator call ends by throwing the
\* configuration error of getOpenAIClient, and no model request is ever issued.
C7_MissingKeyIsConfigurationError ==
    KeyAbsent =>
        /\ requests = 0
        /\ call.pc # "awaiting"
        /\ calls > 0 =>
              /\ Settled
              /\ ~call.requested
              /\ call.outcome = Threw(ConfigError)
              /\ "error:Attempted to use OpenAI client but it is not initialized"
                    \in visionLog

C7_Witness ==
    KeyAbsent /\ apiKey = "undefined" /\ Settled /\ call.outcome = Threw(ConfigError)

\* C8 (as claimed): a missing key is fatal at initialisation, so the module is
\* never initialised without a client.
C8_InitialisedImpliesClient ==
    moduleState = "initialised" => openai # "null"

\* C8 (amended): initialisation never fails; with the key absent the module is
\* initialised with a null client and a logged warning, and the configuration
\* error is raised per request, by each call of the estimator.
C8_MissingKeyFailsPerRequest ==
    /\ moduleState # "failed"
    /\ KeyAbsent =>
          /\ openai = "null"
          /\ "warn:OPENAI_API_KEY environment variable is missing" \in visionLog
          /\ \A n \in 1..MaxCalls :
                calls = n => (Settled /\ call.outcome.error = ConfigError)

C8_Witness ==
    KeyAbsent /\ apiKey = "empty" /\ calls > 1 /\ call.outcome.error = ConfigError

\* The error a failing call raises: the one getOpenAIClient throws, the rejection
\* of the model request, or the Error the estimator throws for an empty or an
\* unparseable reply.
EstimatorFailure ==
    \/ ~call.hadClient
    \/ call.response.kind = "reject"
    \/ call.response.content.kind \in {"missing", "emptyString", "text"}

RaisedError ==
    IF ~call.hadClient THEN ConfigError
    ELSE IF call.response.kind = "reject" THEN call.response.error
    ELSE IF call.response.content.kind = "text" THEN InvalidJsonError
    ELSE NoResponseError

\* C9: every failure inside the estimator (missing client, transport failure,
\* empty content, unparseable content) reaches the caller as a thrown error, the
\* very error object raised, and the call returns no value.
C9_FailuresPropagateUnchanged ==
    (Settled /\ EstimatorFailure) =>
        /\ call.outcome.status = "threw"
        /\ call.outcome.error = RaisedError
        /\ call.outcome.error = call.caught
        /\ call.outcome.value = NoValue

C9_Witness ==
    /\ Settled
    /\ call.response.kind = "reject"
    /\ call.outcome.status = "threw"
    /\ call.outcome.error \in TransportErrors

\* C16 (as claimed): the client makes at most 3 attempts for a request.
C16_AtMostThreeAttempts == call.attempts <= 3

\* C16: every estimator call terminates: the client makes at most 4 attempts
\* for a request (the first and maxRetries = 3 retries, each ended by its
\* timeout at the latest), the estimator issues one request per call and none
\* again within the call, and a call that awaits the client eventually settles
\* with an analysis or an error.
C16_EstimatorCallTerminates ==
    /\ [](call.attempts \in 0..MaxAttempts)
    /\ [](call.pc = "awaiting" => call.attempts >= 1)
    /\ [](requests <= calls)
    /\ [][requests' # requests =>
              (requests' = requests + 1 /\ calls' = calls + 1)]_vars
    /\ [][(call.pc = "awaiting" /\ call'.pc = "awaiting") =>
              call'.attempts = call.attempts + 1]_vars
    /\ (call.pc = "awaiting") ~> (call.pc = "settled" /\ call.outcome.status # "none")

C16_Witness ==
    /\ call.pc = "settled"
    /\ call.attempts = MaxAttempts
    /\ call.response.kind = "reject"
    /\ call.response.error \in RetryableErrors
    /\ call.outcome.status = "threw"
    /\ requests = 1

(***************************************************************************)
(* Claims about the daily aggregator (checked under SpecAggregator, the    *)
(* liveness claim under FairSpecAggregator)                                *)
(***************************************************************************)
HasSummary(r) == runs[r].summary # NoSummary
EmittedBy(r) == { e \in emitted : e.run = r }

\* C3: a run that has handled its event has sent a 'nutrition/low-confidence'
\* event if and only if the event's confidenceScore is strictly below 0.7 (65
\* hundredths sends, 70 does not), and the event sent carries the logId, userId
\* and confidenceScore of the triggering event.
C3_LowConfidenceEmittedIffBelowThreshold ==
    /\ \A r \in Runs :
          runs[r].pc = "done" =>
              (EmittedBy(r) # {} <=> runs[r].event.confidenceScore < 70)
    /\ \A e \in emitted :
          /\ e.name = "nutrition/low-confidence"
          /\ e.data.logId = runs[e.run].event.logId
          /\ e.data.userId = runs[e.run].event.userId
          /\ e.data.confidenceScore = runs[e.run].event.confidenceScore
          /\ e.data.confidenceScore < 70

C3_Witness ==
    \E r, q \in Runs :
        /\ runs[r].pc = "done" /\ runs[r].event.confidenceScore = 65
        /\ EmittedBy(r) # {}
        /\ runs[q].pc = "done" /\ runs[q].event.confidenceScore = 70
        /\ EmittedBy(q) = {}

C5_DayBoundary ==
    \A r \in Runs :
        HasSummary(r) =>
            \A row \in runs[r].summary.persisted :
                row.user_id = runs[r].event.userId =>
                    /\ row.created_at = EndOfDay(runs[r].summary.readAt)
                          => row \in runs[r].summary.todayLogs
                    /\ row.created_at = EndOfDay(runs[r].summary.readAt) + 1
                          => row \notin runs[r].summary.todayLogs

\* C10: a failure of update-daily-summary does not suppress
\* check-insights-trigger: once an event with confidenceScore below 0.7 is being
\* handled, however often step 1 fails and is retried, the low-confidence event
\* for it is eventually sent.
C10_FailureDoesNotSuppressTrigger ==
    \A r \in Runs :
        (runs[r].pc \in {"step1", "retry1"} /\ runs[r].event.confidenceScore < 70)
            ~> (\E e \in emitted : e.run = r /\ e.data.logId = runs[r].event.logId)

C10_Witness ==
    \E r \in Runs : runs[r].pc = "retry1" /\ runs[r].event.confidenceScore < 70

\* C11: the order of the two steps is fixed: check-insights-trigger is not
\* reached, and no low-confidence event is sent, before update-daily-summary
\* has completed successfully, and the function has returned {success: true}
\* only after both steps have completed.
C11_StepOrderFixed ==
    \A r \in Runs :
        /\ runs[r].pc \in {"step2", "retry2", "done"} => HasSummary(r)
        /\ runs[r].pc \in {"idle", "step1", "retry1"} =>
              (~HasSummary(r) /\ EmittedBy(r) = {})
        /\ EmittedBy(r) # {} => (HasSummary(r) /\ runs[r].pc = "done")
        /\ runs[r].pc = "done" =>
              (LowConfidence(runs[r].event.confidenceScore) => EmittedBy(r) # {})

C11_Witness ==
    \E r \in Runs :
        /\ runs[r].pc = "done"
        /\ HasSummary(r)
        /\ EmittedBy(r) # {}

\* The sum of one column over a set of records, a null column counted as 0.
RECURSIVE ColumnSum(_, _)
ColumnSum(rows, col) ==
    IF rows = {} THEN 0
    ELSE LET row == CHOOSE x \in rows : TRUE
         IN (IF row[col] = <<>> THEN 0 ELSE row[col][1]) + ColumnSum(rows \ {row}, col)

\* The records persisted at the read of run r that belong to its event's user
\* and whose created_at lies in the day window [00:00:00.000, 23:59:59.999) of
\* the day of the read.
InDayWindow(r) ==
    { row \in runs[r].summary.persisted :
         /\ row.user_id = runs[r].event.userId
         /\ StartOfDay(runs[r].summary.readAt) <= row.created_at
         /\ row.created_at < EndOfDay(runs[r].summary.readAt) }

\* C12: the totals of update-daily-summary are, for each of the five fields,
\* the sum over exactly the persisted records of the event's user whose
\* created_at lies in the day window [00:00:00.000, 23:59:59.999), a null field
\* counted as 0; records of other users never contribute, and an empty record
\* set gives all-zero totals.
C12_TotalsAreWindowSums ==
    \A r \in Runs :
        HasSummary(r) =>
            /\ runs[r].summary.totals.calories = ColumnSum(InDayWindow(r), "total_calories")
            /\ runs[r].summary.totals.protein = ColumnSum(InDayWindow(r), "total_protein_g")
            /\ runs[r].summary.totals.carbs = ColumnSum(InDayWindow(r), "total_carbs_g")
            /\ runs[r].summary.totals.fat = ColumnSum(InDayWindow(r), "total_fat_g")
            /\ runs[r].summary.totals.fiber = ColumnSum(InDayWindow(r), "total_fiber_g")
            /\ InDayWindow(r) = {} => runs[r].summary.totals = ZeroTotals

C12_Witness ==
    \E r \in Runs :
        /\ HasSummary(r)
        /\ \E row \in runs[r].summary.persisted : row.user_id # runs[r].event.userId
        /\ \E row \in InDayWindow(r) : row.total_protein_g = <<>>
        /\ runs[r].summary.totals.calories = 250
        /\ runs[r].summary.totals.protein = 0

\* C13 (as claimed): when two records of one user are persisted at the same
\* time, a summary for that user read after both are persisted includes both.
C13_ReadAfterBothIncludesBoth ==
    \A r \in Runs :
        HasSummary(r) =>
            \A a, b \in runs[r].summary.persisted :
                (/\ a # b
                 /\ a.user_id = runs[r].event.userId
                 /\ b.user_id = runs[r].event.userId
                 /\ a.created_at = b.created_at)
                    => (/\ {a, b} \subseteq runs[r].summary.todayLogs
                        /\ runs[r].summary.totals.calories =
                              ColumnSum({a, b}, "total_calories"))

\* C19: the aggregator never mutates the record set: a step of a run (a change
\* of the runs or of the events sent) leaves the persisted records unchanged.
C19_AggregatorLeavesRecordsUnchanged ==
    [][(runs' # runs \/ emitted' # emitted) => logs' = logs]_vars

C19_Witness ==
    \E r \in Runs :
        /\ runs[r].pc = "done"
        /\ EmittedBy(r) # {}
        /\ logs # {}
        /\ runs[r].summary.persisted = logs

\* C20 (as claimed): whenever update-daily-summary completes for an event, its
\* totals include the persisted record named by the event's logId, whenever
\* the step runs.
C20_TotalsIncludeTriggeringRecord ==
    \A r \in Runs :
        HasSummary(r) =>
            \E row \in runs[r].summary.todayLogs : row.id = runs[r].event.logId

(***************************************************************************)
(* Claims about the pipeline (checked under SpecPipeline)                  *)
(***************************************************************************)
\* C1: analyzeFoodImage either returns a fully populated record whose final
\* calorie total is the validator's adjustedCalories, or throws and returns no
\* record; a failed estimator or validator call never yields a record.
C1_ReturnsValidatedCaloriesOrThrows ==
    /\ pipe.pc = "returned" =>
          /\ pipe.initial \in InitialAnalyses
          /\ pipe.validation \in Validations
          /\ DOMAIN pipe.result = EstimateFields
          /\ pipe.result.finalCalories = pipe.validation.adjustedCalories
          /\ pipe.error = "none"
    /\ pipe.pc = "threw" =>
          /\ pipe.result = NoObject
          /\ pipe.error \in GenerateErrors
          /\ pipe.initial = NoObject \/ pipe.validation = NoObject
    /\ pipe.pc \notin {"returned"} => pipe.result = NoObject

C1_Witness ==
    /\ pipe.pc = "returned"
    /\ pipe.initial.totalCaloriesEstimate = 250
    /\ pipe.validation.adjustedCalories = 95
    /\ pipe.result.finalCalories = 95

\* C2: requiresUserConfirmation is true exactly when the confidence score is
\* strictly below 0.7 (70 hundredths); a score of exactly 0.7 gives false.
C2_ConfirmationIffBelowThreshold ==
    processed # NoObject =>
        /\ processed.estimate = pipe.result
        /\ processed.requiresUserConfirmation <=> (processed.estimate.confidence < 70)
        /\ processed.estimate.confidence = 70 => ~processed.requiresUserConfirmation

C2_Witness ==
    /\ processed # NoObject
    /\ processed.estimate.confidence = 70
    /\ ~processed.requiresUserConfirmation

\* C14: validation changes the calorie total only: every field of the
\* first-stage estimate is in the returned estimate with the value the first
\* stage gave it, and the only fields added are the validated calorie total
\* and the validator's notes.
C14_ValidationLeavesFirstStageFields ==
    pipe.pc = "returned" =>
        /\ \A f \in DOMAIN pipe.initial :
              /\ f \in DOMAIN pipe.result
              /\ pipe.result[f] = pipe.initial[f]
        /\ DOMAIN pipe.result \ DOMAIN pipe.initial = {"finalCalories", "validationNotes"}
        /\ processed # NoObject =>
              \A f \in DOMAIN pipe.initial : processed.estimate[f] = pipe.initial[f]

C14_Witness ==
    /\ pipe.pc = "returned"
    /\ processed # NoObject
    /\ ~pipe.validation.isReasonable
    /\ pipe.validation.adjustedCalories # pipe.initial.totalCaloriesEstimate
    /\ pipe.initial.foodItems # <<>>
    /\ pipe.initial.confidence = 71

\* The second model request was made and failed.
ValidatorFailed == pipe.validatorCalled /\ pipe.error # "none"

\* C15: a validator failure is never swallowed: the validator is called only
\* after the estimator has returned an estimate, and when the validator fails
\* the whole attempt fails with its error and no estimate, flagged or not, is
\* returned or processed.
C15_ValidatorFailureNotSwallowed ==
    /\ pipe.validatorCalled => pipe.initial \in InitialAnalyses
    /\ ValidatorFailed =>
          /\ pipe.pc = "threw"
          /\ pipe.error \in GenerateErrors
          /\ pipe.result = NoObject
          /\ processed = NoObject
    /\ pipe.result # NoObject => pipe.validation \in Validations

C15_Witness ==
    /\ ValidatorFailed
    /\ pipe.pc = "threw"
    /\ pipe.initial \in InitialAnalyses
    /\ pipe.initial.totalCaloriesEstimate = 250

(***************************************************************************)
(* Claims about the calorie tracker page                                   *)
(***************************************************************************)
\* The auth lookup of the current request has returned.
AuthLookupReturned == page.pc \in {"redirected", "searchParams", "rendered"}

\* C17: the page renders only for an authenticated user: whenever the auth
\* lookup returns an error or no user the request is redirected to /login and
\* no page content, PhotoUpload included, is rendered.
C17_RendersOnlyForAuthenticatedUser ==
    /\ (AuthLookupReturned /\ (page.error # "none" \/ page.user = "null")) =>
          /\ page.pc = "redirected"
          /\ page.location = LoginPath
          /\ page.rendered = {}
    /\ page.rendered # {} =>
          /\ page.pc = "rendered"
          /\ page.user # "null"
          /\ page.error = "none"
    /\ page.pc \in {"searchParams", "rendered"} =>
          (page.user # "null" /\ page.error = "none")

C17_Witness ==
    /\ page.pc = "redirected"
    /\ page.user = "null"
    /\ page.error = "none"
    /\ page.success = "true"
    /\ page.location = LoginPath
    /\ page.visit = 2

(***************************************************************************)
(* Claims about the session middleware                                     *)
(***************************************************************************)
\* C18 (as claimed): when updateSession returns, every cookie passed to any
\* setAll call is, with its latest value, both on the request and on the
\* returned response.
C18_EveryPassedCookieOnRequestAndResponse ==
    session.pc = "returned" =>
        \A n \in CookieNames :
            session.passed[n] # Absent =>
                /\ session.request[n] = session.passed[n]
                /\ session.response[n] = session.passed[n]

(***************************************************************************)
(* Claims about the logging sink                                           *)
(***************************************************************************)
\* C21: logAIOperation never fails its caller: for every input and output,
\* those that cannot be serialised included, and every outcome of the insert
\* (success, returned error, rejection) the call completes without throwing,
\* and the caller ends with the result of the operation it logged.
C21_LoggingNeverFailsCaller ==
    oplog.pc = "settled" =>
        /\ oplog.result = "resolved"
        /\ oplog.error = "none"
        /\ oplog.caller = (IF oplog.success THEN "returned" ELSE "threw:operation")
        /\ oplog.stored # NoRow => oplog.insert = "inserted"

C21_Witness ==
    /\ oplog.pc = "settled"
    /\ oplog.input = "circular"
    /\ oplog.output = "undefined"
    /\ oplog.success
    /\ oplog.insert = "none"
    /\ oplog.console = {"Error logging AI operation"}
    /\ oplog.caller = "returned"

====
